---- MODULE Spec2Model ----
(***************************************************************************)
(* A model of the tutorial artifacts of nyu-curp-2021:                     *)
(*   day2/exercise3/src/mymath/_factorial.py   factorial(n)                *)
(*   day2/exercise1/hello_curp.py              get_user_name(), main()     *)
(*                                                                         *)
(* factorial is modelled one source line per step, each invocation with    *)
(* its own frame (n, result, the range iterator, i).  Python's int is      *)
(* arbitrary precision; it is modelled as a little-endian sequence of      *)
(* limbs in base 2^16, so that no value of the model is cut to the width   *)
(* of the model checker's own integers.                                    *)
(***************************************************************************)
EXTENDS Integers, Sequences, FiniteSets, TLC

VARIABLES
    \* factorial, per invocation frame
    pc,      \* the line the frame is at: "idle", "l12", "l13", "l14", "l16", "done"
    n,       \* the parameter
    it,      \* the iterator of range(1, n + 1): the value it yields next
    i,       \* the loop variable
    result,  \* the accumulator
    mults,   \* ghost: the multipliers applied so far, in order
    ret,     \* the value returned, None before the return
    hist,    \* ghost: (argument, value) of every return, in order
    \* hello_curp.py
    cpc,     \* the line the script is at
    argv,    \* the command line after the script name
    env,     \* os.environ: each name's value, None when not set
    args,    \* the parsed arguments, None before parse_args returns
    name,    \* the local of get_user_name
    out,     \* standard output, one element per print
    reads,   \* ghost: the environment variables read, in order
    status   \* the exit status, None while running

fvars == <<pc, n, it, i, result, mults, ret, hist>>
cvars == <<cpc, argv, env, args, name, out, reads, status>>
vars == <<pc, n, it, i, result, mults, ret, hist,
          cpc, argv, env, args, name, out, reads, status>>

---------------------------------------------------------------------------
(* Bounds of the model.                                                    *)

\* largest argument of the single-invocation specification
MaxN == 25
\* arguments below zero: -NegDepth .. -1
NegDepth == 2
\* number of invocation frames of the concurrent specification
NumCalls == 2
\* largest argument of the concurrent specification
ConcMaxN == 4
\* largest argument of the repeated-call specification
RepMaxN == 4
\* number of invocations of the repeated-call specification
MaxCalls == 3

Calls == 1..NumCalls
Args == (-NegDepth)..MaxN
ConcArgs == (-1)..ConcMaxN
RepArgs == (-1)..RepMaxN

---------------------------------------------------------------------------
(* Python values.                                                          *)

\* Python's None, and a value that is present; an optional value is a tuple
\* of length 0 or 1
None == <<>>
Some(v) == <<v>>

\* the base of the limbs of an int
Base == 2^16

\* the int 1 (the literal of `result = 1`)
One == <<1>>

\* int * int for a multiplier 1 <= k < Base: limb by limb with the carry,
\* no limb is ever dropped
RECURSIVE MulCarry(_, _, _, _)
MulCarry(x, k, idx, carry) ==
    IF idx > Len(x)
    THEN IF carry = 0 THEN <<>> ELSE <<carry>>
    ELSE LET t == x[idx] * k + carry
         IN  <<t % Base>> \o MulCarry(x, k, idx + 1, t \div Base)

\* an int without its zero high limbs (the products of the model have none)
RECURSIVE Norm(_)
Norm(x) ==
    IF Len(x) > 1 /\ x[Len(x)] = 0 THEN Norm(SubSeq(x, 1, Len(x) - 1)) ELSE x

\* x modulo 2^64: the four low limbs
Wrap64(x) == IF Len(x) > 4 THEN Norm(SubSeq(x, 1, 4)) ELSE x

\* the product kept in a 64-bit word: the high limbs are lost
IntMulWrap64(x, k) == Wrap64(MulCarry(x, k, 1, 0))

IntMul(x, k) == MulCarry(x, k, 1, 0)

\* a range that starts at 0: range(n + 1)
RangeStartZero == 1 - 1

\* range(1, n + 1): its first value and its (exclusive) stop
RangeStart == 1

\* a range that stops one short: range(1, n)
RangeStopShort(v) == v

\* a range over the magnitude of the argument: range(1, abs(n) + 1)
RangeStopAbs(v) == IF v < 0 THEN (-v) + 1 ELSE v + 1

RangeStop(v) == v + 1

---------------------------------------------------------------------------
(* factorial(n), _factorial.py lines 4-16, one frame per invocation c.     *)

\* the invocation: the frame is created and the argument bound; result is not
\* bound yet, its slot holds whatever was left there
Call(c, v) ==
    /\ pc[c] = "idle"
    /\ pc' = [pc EXCEPT ![c] = "l12"]
    /\ n' = [n EXCEPT ![c] = v]
    /\ it' = [it EXCEPT ![c] = None]
    /\ i' = [i EXCEPT ![c] = None]
    /\ mults' = [mults EXCEPT ![c] = <<>>]
    /\ ret' = [ret EXCEPT ![c] = None]
    /\ UNCHANGED <<result, hist>>
    /\ UNCHANGED cvars

\* an accumulator that is not set at entry: it keeps what the last run left
L12Stale(c) ==
    /\ pc[c] = "l12"
    /\ pc' = [pc EXCEPT ![c] = "l13"]
    /\ it' = [it EXCEPT ![c] = Some(RangeStart)]
    /\ UNCHANGED <<n, i, result, mults, ret, hist>>
    /\ UNCHANGED cvars

\* line 12, result = 1, and the creation of the iterator of line 13
L12(c) ==
    /\ pc[c] = "l12"
    /\ pc' = [pc EXCEPT ![c] = "l13"]
    /\ result' = [result EXCEPT ![c] = One]
    /\ it' = [it EXCEPT ![c] = Some(RangeStart)]
    /\ UNCHANGED <<n, i, mults, ret, hist>>
    /\ UNCHANGED cvars

\* line 13, for i in range(1, n + 1): the next value, or the end of the loop
L13(c) ==
    /\ pc[c] = "l13"
    /\ IF it[c][1] < RangeStop(n[c])
       THEN /\ i' = [i EXCEPT ![c] = it[c]]
            /\ it' = [it EXCEPT ![c] = Some(it[c][1] + 1)]
            /\ pc' = [pc EXCEPT ![c] = "l14"]
       ELSE /\ pc' = [pc EXCEPT ![c] = "l16"]
            /\ UNCHANGED <<i, it>>
    /\ UNCHANGED <<n, result, mults, ret, hist>>
    /\ UNCHANGED cvars

\* an accumulator shared by all frames (a module-level global)
L14Shared(c) ==
    /\ pc[c] = "l14"
    /\ pc' = [pc EXCEPT ![c] = "l13"]
    /\ result' = [d \in Calls |-> IntMul(result[c], i[c][1])]
    /\ mults' = [mults EXCEPT ![c] = Append(mults[c], i[c][1])]
    /\ UNCHANGED <<n, it, i, ret, hist>>
    /\ UNCHANGED cvars

\* line 14, result *= i
L14(c) ==
    /\ pc[c] = "l14"
    /\ pc' = [pc EXCEPT ![c] = "l13"]
    /\ result' = [result EXCEPT ![c] = IntMul(result[c], i[c][1])]
    /\ mults' = [mults EXCEPT ![c] = Append(mults[c], i[c][1])]
    /\ UNCHANGED <<n, it, i, ret, hist>>
    /\ UNCHANGED cvars

\* line 16, return result; hist records, in the order of the returns, what
\* was returned for which argument
L16(c) ==
    /\ pc[c] = "l16"
    /\ pc' = [pc EXCEPT ![c] = "done"]
    /\ ret' = [ret EXCEPT ![c] = Some(result[c])]
    /\ hist' = Append(hist, [arg |-> n[c], val |-> result[c]])
    /\ UNCHANGED <<n, it, i, result, mults>>
    /\ UNCHANGED cvars

\* the caller has taken the value; the frame is free for the next invocation
Finish(c) ==
    /\ pc[c] = "done"
    /\ Len(hist) < MaxCalls
    /\ pc' = [pc EXCEPT ![c] = "idle"]
    /\ UNCHANGED <<n, it, i, result, mults, ret, hist>>
    /\ UNCHANGED cvars

FactInit ==
    /\ pc = [c \in Calls |-> "idle"]
    /\ n = [c \in Calls |-> 0]
    /\ it = [c \in Calls |-> None]
    /\ i = [c \in Calls |-> None]
    /\ result = [c \in Calls |-> One]
    /\ mults = [c \in Calls |-> <<>>]
    /\ ret = [c \in Calls |-> None]
    /\ hist = <<>>

CliIdle ==
    /\ cpc = "off"
    /\ argv = <<>>
    /\ env = [k \in {"USER", "USERNAME"} |-> <<>>]
    /\ args = None
    /\ name = None
    /\ out = <<>>
    /\ reads = <<>>
    /\ status = None

Init == FactInit /\ CliIdle

\* one invocation, any argument of Args
Next ==
    \/ \E v \in Args : Call(1, v)
    \/ L12(1)
    \/ L13(1)
    \/ L14(1)
    \/ L16(1)

Spec == Init /\ [][Next]_vars

\* several invocations whose steps interleave in any order
NextConc ==
    \E c \in Calls :
        \/ \E v \in ConcArgs : Call(c, v)
        \/ L12(c)
        \/ L13(c)
        \/ L14(c)
        \/ L16(c)

SpecConc == Init /\ [][NextConc]_vars

\* one caller that invokes factorial again and again
NextRepeat ==
    \/ \E v \in RepArgs : Call(1, v)
    \/ L12(1)
    \/ L13(1)
    \/ L14(1)
    \/ L16(1)
    \/ Finish(1)

SpecRepeat == Init /\ [][NextRepeat]_vars

\* the interpreter runs the statements of an invoked function one after the
\* other: a statement that can run does run
Steps == L12(1) \/ L13(1) \/ L14(1) \/ L16(1)

FairSpec == Spec /\ WF_vars(Steps)

---------------------------------------------------------------------------
(* hello_curp.py: get_user_name() and main().                              *)

\* the command lines and the environments the script is run with
ArgValues == {"", "carol"}
Argvs ==
    {<<>>, <<"--user">>, <<"--bogus">>, <<"--user", "carol", "--user", "dave">>}
        \cup {<<"--user", v>> : v \in ArgValues}
        \cup {<<"--user", v, "extra">> : v \in ArgValues}
EnvNames == {"USER", "USERNAME"}
EnvValues == {None, Some(""), Some("alice"), Some("bob")}
Envs == [EnvNames -> EnvValues]

\* os.getenv(k): the value of k, None when k is not set
Getenv(k) == env[k]

\* the variable read first (line 6) and the one read as the fallback (line 8)
FirstVarSwapped == "USERNAME"

FirstVar == "USER"

FallbackVar == "USERNAME"

\* {x} in an f-string: str(x); str(None) is "None"
Fmt(v) == IF v = None THEN "None" ELSE v[1]

\* parser.parse_args() of a parser whose one option is --user (type str,
\* default None): --user takes the token that follows it, the last --user
\* wins, anything else is an error (argparse then exits with status 2)
RECURSIVE ParseFrom(_, _)
ParseFrom(tokens, user) ==
    IF tokens = <<>> THEN [ok |-> TRUE, user |-> user]
    ELSE IF Head(tokens) = "--user" /\ Len(tokens) >= 2
         THEN ParseFrom(SubSeq(tokens, 3, Len(tokens)), Some(tokens[2]))
         ELSE [ok |-> FALSE, user |-> None]

ParseArgs(tokens) == ParseFrom(tokens, None)

\* lines 13-16: the parser is built and the command line parsed
Main16 ==
    /\ cpc = "l13"
    /\ LET p == ParseArgs(argv)
       IN  IF p.ok
           THEN /\ args' = Some([user |-> p.user])
                /\ cpc' = "l18"
                /\ UNCHANGED status
           ELSE /\ status' = Some(2)
                /\ cpc' = "exited"
                /\ UNCHANGED args
    /\ UNCHANGED <<argv, env, name, out, reads>>
    /\ UNCHANGED fvars

\* line 18, if args.user is None
Main18 ==
    /\ cpc = "l18"
    /\ cpc' = IF args[1].user = None THEN "l6" ELSE "l21"
    /\ UNCHANGED <<argv, env, args, name, out, reads, status>>
    /\ UNCHANGED fvars

\* line 6, name = os.getenv('USER')
Get6 ==
    /\ cpc = "l6"
    /\ name' = Getenv(FirstVar)
    /\ reads' = Append(reads, FirstVar)
    /\ cpc' = "l7"
    /\ UNCHANGED <<argv, env, args, out, status>>
    /\ UNCHANGED fvars

\* a test of the truth of name: `if not name`, which takes "" for unset
Get7Falsy ==
    /\ cpc = "l7"
    /\ cpc' = IF name = None \/ name = Some("") THEN "l8" ELSE "l9"
    /\ UNCHANGED <<argv, env, args, name, out, reads, status>>
    /\ UNCHANGED fvars

\* line 7, if name is None
Get7 ==
    /\ cpc = "l7"
    /\ cpc' = IF name = None THEN "l8" ELSE "l9"
    /\ UNCHANGED <<argv, env, args, name, out, reads, status>>
    /\ UNCHANGED fvars

\* line 8, name = os.getenv('USERNAME')
Get8 ==
    /\ cpc = "l8"
    /\ name' = Getenv(FallbackVar)
    /\ reads' = Append(reads, FallbackVar)
    /\ cpc' = "l9"
    /\ UNCHANGED <<argv, env, args, out, status>>
    /\ UNCHANGED fvars

\* line 9, return name: back in line 19 with the value
Get9 ==
    /\ cpc = "l9"
    /\ cpc' = "l19"
    /\ UNCHANGED <<argv, env, args, name, out, reads, status>>
    /\ UNCHANGED fvars

\* line 19, print(f'Hi! Are you {get_user_name()}?')
Main19 ==
    /\ cpc = "l19"
    /\ out' = Append(out, "Hi! Are you " \o Fmt(name) \o "?")
    /\ cpc' = "end"
    /\ UNCHANGED <<argv, env, args, name, reads, status>>
    /\ UNCHANGED fvars

\* line 21, print(f'Hi, {args.user}!')
Main21 ==
    /\ cpc = "l21"
    /\ out' = Append(out, "Hi, " \o Fmt(args[1].user) \o "!")
    /\ cpc' = "end"
    /\ UNCHANGED <<argv, env, args, name, reads, status>>
    /\ UNCHANGED fvars

\* main() returns and the script (lines 24-25) ends with status 0
MainReturn ==
    /\ cpc = "end"
    /\ cpc' = "returned"
    /\ status' = Some(0)
    /\ UNCHANGED <<argv, env, args, name, out, reads>>
    /\ UNCHANGED fvars

CliInit ==
    /\ cpc = "l13"
    /\ argv \in Argvs
    /\ env \in Envs
    /\ args = None
    /\ name = None
    /\ out = <<>>
    /\ reads = <<>>
    /\ status = None

InitCli == FactInit /\ CliInit

NextCli ==
    \/ Main16
    \/ Main18
    \/ Get6
    \/ Get7
    \/ Get8
    \/ Get9
    \/ Main19
    \/ Main21
    \/ MainReturn

SpecCli == InitCli /\ [][NextCli]_vars

\* the interpreter runs the script's statements one after the other
FairSpecCli == SpecCli /\ WF_vars(NextCli)

---------------------------------------------------------------------------
(* The mathematics the claims speak of, computed on decimal digits          *)
(* (little-endian), apart from the limbs of the model.                      *)

\* digits * k, school multiplication
RECURSIVE DecMulCarry(_, _, _, _)
DecMulCarry(d, k, idx, carry) ==
    IF idx > Len(d)
    THEN IF carry = 0 THEN <<>>
         ELSE <<carry % 10>> \o DecMulCarry(d, k, idx, carry \div 10)
    ELSE LET t == d[idx] * k + carry
         IN  <<t % 10>> \o DecMulCarry(d, k, idx + 1, t \div 10)

\* the product of the integers 1..m; the empty product is 1
RECURSIVE ProductUpTo(_)
ProductUpTo(m) ==
    IF m <= 0 THEN <<1>> ELSE DecMulCarry(ProductUpTo(m - 1), m, 1, 0)

\* an int divided by a small d: quotient limbs and remainder
RECURSIVE DivStep(_, _, _, _)
DivStep(x, d, idx, rem) ==
    IF idx = 0 THEN [q |-> <<>>, r |-> rem]
    ELSE LET cur == rem * Base + x[idx]
             rest == DivStep(x, d, idx - 1, cur % d)
         IN  [q |-> Append(rest.q, cur \div d), r |-> rest.r]

\* the decimal digits of an int
RECURSIVE ToDigits(_)
ToDigits(x) ==
    IF Len(x) = 1 /\ x[1] < 10 THEN <<x[1]>>
    ELSE LET dr == DivStep(x, 10, Len(x), 0)
         IN  <<dr.r>> \o ToDigits(Norm(dr.q))

DigitChar == <<"0", "1", "2", "3", "4", "5", "6", "7", "8", "9">>

\* digits as a numeral, the way str(int) writes it
RECURSIVE Numeral(_)
Numeral(ds) ==
    IF ds = <<>> THEN "" ELSE Numeral(Tail(ds)) \o DigitChar[Head(ds) + 1]

IntStr(x) == Numeral(ToDigits(x))

\* a < b on digit sequences without zero high digits
RECURSIVE DecLessFrom(_, _, _)
DecLessFrom(a, b, idx) ==
    IF idx = 0 THEN FALSE
    ELSE IF a[idx] # b[idx] THEN a[idx] < b[idx]
    ELSE DecLessFrom(a, b, idx - 1)

DecLess(a, b) ==
    IF Len(a) # Len(b) THEN Len(a) < Len(b) ELSE DecLessFrom(a, b, Len(a))

\* 2^63 - 1, the largest signed 64-bit integer
Int63Max == <<Base - 1, Base - 1, Base - 1, (Base \div 2) - 1>>

Max0(v) == IF v < 0 THEN 0 ELSE v

Returned(c) == ret[c] # None

---------------------------------------------------------------------------
(* The claims.                                                             *)

\* C1: for every n >= 0, factorial(n) returns exactly the product of the
\* integers 1..n (1 for n = 0); factorial(0) = 1, factorial(1) = 1,
\* factorial(5) = 120, factorial(10) = 3628800.
C1_ReturnsProduct ==
    \A c \in Calls :
        (Returned(c) /\ n[c] >= 0) =>
            /\ ToDigits(ret[c][1]) = ProductUpTo(n[c])
            /\ (n[c] = 0 => IntStr(ret[c][1]) = "1")
            /\ (n[c] = 1 => IntStr(ret[c][1]) = "1")
            /\ (n[c] = 5 => IntStr(ret[c][1]) = "120")
            /\ (n[c] = 10 => IntStr(ret[c][1]) = "3628800")

C1_Witness ==
    Returned(1) /\ n[1] = 10 /\ IntStr(ret[1][1]) = "3628800"

\* C2: for all n >= 1, factorial(n) = n * factorial(n - 1): whenever both
\* have been returned, the value for n is n times the value for n - 1.
C2_Recurrence ==
    \A j, k \in DOMAIN hist :
        (hist[j].arg >= 1 /\ hist[k].arg = hist[j].arg - 1) =>
            hist[j].val = IntMul(hist[k].val, hist[j].arg)

C2_Witness ==
    \E j, k \in DOMAIN hist :
        /\ hist[j].arg = RepMaxN
        /\ hist[k].arg = RepMaxN - 1
        /\ hist[j].val = IntMul(hist[k].val, RepMaxN)

\* C3: invocations whose steps interleave in any order each return the
\* factorial of their own argument; at every step a frame's accumulator is
\* the product of the multipliers that frame itself has applied.
C3_ConcurrentCallsIndependent ==
    \A c \in Calls :
        /\ pc[c] \in {"l13", "l14", "l16", "done"} =>
               ToDigits(result[c]) = ProductUpTo(Len(mults[c]))
        /\ Returned(c) =>
               /\ ret[c] = Some(result[c])
               /\ ToDigits(ret[c][1]) = ProductUpTo(Max0(n[c]))

C3_Witness ==
    /\ Returned(1) /\ n[1] = ConcMaxN
    /\ pc[2] = "l14" /\ n[2] = ConcMaxN - 1 /\ Len(mults[2]) = 1
    /\ ToDigits(ret[1][1]) = ProductUpTo(ConcMaxN)

\* C4: factorial(n) called again with the same n returns the same value,
\* whatever was called in between.
C4_SameArgSameResult ==
    \A j, k \in DOMAIN hist :
        hist[j].arg = hist[k].arg => hist[j].val = hist[k].val

C4_Witness ==
    /\ Len(hist) = 3
    /\ hist[1].arg = RepMaxN
    /\ hist[2].arg = RepMaxN - 1
    /\ hist[3].arg = RepMaxN
    /\ hist[3].val = hist[1].val

\* C5: no fixed-width truncation: when n! exceeds 2^63 - 1 the exact value
\* is returned, it is greater than 2^63 - 1 and it is not its own residue
\* modulo 2^64; factorial(25) = 15511210043330985984000000.
C5_NoFixedWidthTruncation ==
    \A c \in Calls :
        (Returned(c) /\ DecLess(ToDigits(Int63Max), ProductUpTo(n[c]))) =>
            /\ ToDigits(ret[c][1]) = ProductUpTo(n[c])
            /\ DecLess(ToDigits(Int63Max), ToDigits(ret[c][1]))
            /\ ret[c][1] # Wrap64(ret[c][1])
            /\ (n[c] = 25 =>
                   IntStr(ret[c][1]) = "15511210043330985984000000")

C5_Witness ==
    /\ Returned(1) /\ n[1] = 25
    /\ IntStr(ret[1][1]) = "15511210043330985984000000"
    /\ Len(ret[1][1]) > 4

\* C6: for a negative n the loop body is never entered and 1 is returned.
C6_NegativeReturnsOne ==
    \A c \in Calls :
        n[c] < 0 =>
            /\ pc[c] # "l14"
            /\ mults[c] = <<>>
            /\ (Returned(c) => ret[c] = Some(One) /\ IntStr(ret[c][1]) = "1")

C6_Witness ==
    Returned(1) /\ n[1] = -NegDepth /\ ret[1] = Some(One) /\ mults[1] = <<>>

\* C8: the accumulator starts at 1 and is multiplied by 1, 2, ..., n in
\* ascending order, each once, with no early exit; after multiplier i has
\* been applied the accumulator is i!; the accumulator after the last
\* multiplier is what is returned.
C8_LoopInvariant ==
    \A c \in Calls :
        pc[c] \in {"l13", "l14", "l16", "done"} =>
            /\ \A j \in 1..Len(mults[c]) : mults[c][j] = j
            /\ ToDigits(result[c]) = ProductUpTo(Len(mults[c]))
            /\ (mults[c] = <<>> => result[c] = One)
            /\ (pc[c] = "l14" => i[c] = Some(Len(mults[c]) + 1))
            /\ (pc[c] \in {"l16", "done"} => Len(mults[c]) = Max0(n[c]))
            /\ (pc[c] = "done" => ret[c] = Some(result[c]))

C8_Witness ==
    /\ pc[1] = "l13" /\ n[1] = 20
    /\ mults[1] = <<1, 2, 3, 4, 5, 6, 7>>
    /\ IntStr(result[1]) = "5040"

\* C9: for every integer n the call terminates, after exactly max(n, 0)
\* multiplications.
C9_Terminates ==
    /\ (pc[1] = "l12") ~> (pc[1] = "done")
    /\ [](Len(mults[1]) <= Max0(n[1]))
    /\ [](pc[1] = "done" => Len(mults[1]) = Max0(n[1]))

C9_Witness ==
    pc[1] = "done" /\ n[1] = MaxN /\ Len(mults[1]) = MaxN

\* the --user value of a command line the parser accepts: the token after
\* the last --user
LastUser ==
    LET at == {k \in 1..Len(argv) : argv[k] = "--user"}
        last == CHOOSE k \in at : \A m \in at : m <= k
    IN  argv[last + 1]

UserGiven == \E k \in 1..Len(argv) : argv[k] = "--user"

\* USER, or USERNAME when USER is not set
EnvName == IF env["USER"] # None THEN env["USER"] ELSE env["USERNAME"]

Parsed == args # None

\* what has been printed, and from where, once the command line is parsed
OneGreeting ==
    Parsed =>
        /\ cpc # "exited" /\ status \in {None, Some(0)}
        /\ Len(out) <= 1
        /\ (UserGiven => reads = <<>>)
        /\ cpc \in {"end", "returned"} =>
               /\ Len(out) = 1
               /\ UserGiven => out[1] = "Hi, " \o LastUser \o "!"
               /\ ~UserGiven => out[1] = "Hi! Are you " \o Fmt(EnvName) \o "?"
        /\ cpc = "returned" => status = Some(0)

\* C7: with --user given the CLI prints 'Hi, <user>!' and does not consult
\* the environment; without it, it prints 'Hi! Are you <name>?' with the
\* value of USER, or of USERNAME when USER is not set; in both paths exactly
\* one line is printed and main returns normally.
C7_Greeting ==
    /\ []OneGreeting
    /\ Parsed ~> (cpc = "returned" /\ status = Some(0) /\ Len(out) = 1)

C7_Witness ==
    /\ cpc = "returned" /\ argv = <<>>
    /\ env["USER"] = None /\ env["USERNAME"] = Some("bob")
    /\ out = <<"Hi! Are you bob?">>

\* C10: get_user_name reads USERNAME only when USER is not set; a USER that
\* is set, even to "", is returned and USERNAME ignored; with USER not set
\* the value of USERNAME is returned; with neither set it returns None and
\* the CLI prints 'Hi! Are you None?'.
C10_UserNameFallback ==
    /\ (\E k \in 1..Len(reads) : reads[k] = "USERNAME") => env["USER"] = None
    /\ cpc \in {"l19", "end", "returned"} /\ reads # <<>> =>
           /\ reads[1] = "USER"
           /\ env["USER"] # None => name = env["USER"] /\ reads = <<"USER">>
           /\ env["USER"] = None =>
                  name = env["USERNAME"] /\ reads = <<"USER", "USERNAME">>
    /\ (cpc \in {"end", "returned"} /\ reads # <<>>
            /\ env["USER"] = None /\ env["USERNAME"] = None) =>
           name = None /\ out = <<"Hi! Are you None?">>
    /\ reads # <<>> => cpc # "exited"

C10_Witness ==
    /\ cpc = "returned"
    /\ env["USER"] = Some("") /\ env["USERNAME"] = Some("bob")
    /\ name = Some("") /\ reads = <<"USER">>
    /\ out = <<"Hi! Are you ?">>

====
